---- MODULE Spec2Model ----
(***************************************************************************)
(* py-feedr: MonitorFeedUpdate.monitor (src/feedr/monitor.py) and          *)
(* TweetUpdate.tweet_latest_update (src/feedr/tweetupdate.py).             *)
(*                                                                         *)
(* Strings are sequences of one-character strings.  None and the empty     *)
(* string are both the empty sequence wherever the code only tests their   *)
(* truth value (filter(bool, ...), "if url:", "if img_url:").              *)
(***************************************************************************)
EXTENDS Integers, Sequences, FiniteSets, TLC

VARIABLES
    pc,                     \* position of monitor(): idle, check, retract, publish, persist, aborted
    entries,                \* self.feed.entries, newest first
    idx,                    \* position of the loop over reversed(self.feed.entries)
    feed_subscribed_users,  \* self.feed_subscribed_users
    users,                  \* the subscribed accounts kept by the store
    history,                \* the history table, oldest row first
    timeline,               \* the remote posts of the account, oldest first
    dms,                    \* the direct messages sent so far
    log,                    \* what the current cycle has done so far, in order
    publishCalls,           \* the fingerprints tweet_latest_update was called for, in order
    ncycles                 \* number of cycles started

vars == <<pc, entries, idx, feed_subscribed_users, users, history, timeline,
          dms, log, publishCalls, ncycles>>

-----------------------------------------------------------------------------
(* Bounds *)

MaxFeed == 2

MaxCycles == 2

MaxTitleLen == 143

MaxSummaryLen == 50

-----------------------------------------------------------------------------
(* Strings *)

Max(a, b) == IF a >= b THEN a ELSE b

Min(a, b) == IF a <= b THEN a ELSE b

\* s[:n] of Python, for any integer n
Slice(s, n) ==
    LET m == IF n >= 0 THEN Min(n, Len(s)) ELSE Max(Len(s) + n, 0)
    IN  SubSeq(s, 1, m)

NL == <<"\n">>

Ellipsis == <<".", ".", ".">>

RECURSIVE JoinNL(_)
\* '\n'.join(parts)
JoinNL(parts) ==
    IF parts = <<>> THEN <<>>
    ELSE IF Len(parts) = 1 THEN parts[1]
    ELSE parts[1] \o NL \o JoinNL(Tail(parts))

\* filter(bool, values): drops None and ''
FilterBool(parts) == SelectSeq(parts, LAMBDA p : p # <<>>)

\* "x in y" of Python on strings
IsSubstring(x, y) ==
    \E i \in 0..(Len(y) - Len(x)) : SubSeq(y, i + 1, i + Len(x)) = x

-----------------------------------------------------------------------------
(* difflib.SequenceMatcher(None, a, b), no junk; autojunk only acts on      *)
(* strings of 200 characters or more.  Positions are 0-based, ranges are    *)
(* half-open, as in difflib.                                                *)

\* length of the longest common run starting at a[i], b[j] inside the ranges
RunLen(a, b, i, j, ahi, bhi) ==
    LET lim == Min(ahi - i, bhi - j)
    IN  CHOOSE k \in 0..lim :
            /\ \A t \in 0..(k - 1) : a[i + t + 1] = b[j + t + 1]
            /\ (k = lim \/ a[i + k + 1] # b[j + k + 1])

\* find_longest_match: the longest block, the earliest in a, then the earliest in b
find_longest_match(a, b, alo, ahi, blo, bhi) ==
    LET cells == (alo..(ahi - 1)) \X (blo..(bhi - 1))
        best == IF cells = {} THEN 0
                ELSE CHOOSE k \in 0..Min(ahi - alo, bhi - blo) :
                        /\ \E c \in cells : RunLen(a, b, c[1], c[2], ahi, bhi) = k
                        /\ \A c \in cells : RunLen(a, b, c[1], c[2], ahi, bhi) <= k
    IN  IF best = 0 THEN <<alo, blo, 0>>
        ELSE LET i == CHOOSE x \in alo..(ahi - 1) :
                        /\ \E y \in blo..(bhi - 1) : RunLen(a, b, x, y, ahi, bhi) = best
                        /\ \A x2 \in alo..(x - 1) : \A y \in blo..(bhi - 1) :
                               RunLen(a, b, x2, y, ahi, bhi) < best
                 j == CHOOSE y \in blo..(bhi - 1) :
                        /\ RunLen(a, b, i, y, ahi, bhi) = best
                        /\ \A y2 \in blo..(y - 1) : RunLen(a, b, i, y2, ahi, bhi) < best
             IN  <<i, j, best>>

RECURSIVE MatchedSize(_, _, _, _, _, _)
\* the sum of the sizes of get_matching_blocks()
MatchedSize(a, b, alo, ahi, blo, bhi) ==
    LET m == find_longest_match(a, b, alo, ahi, blo, bhi)
    IN  IF m[3] = 0 THEN 0
        ELSE m[3]
             + (IF alo < m[1] /\ blo < m[2]
                THEN MatchedSize(a, b, alo, m[1], blo, m[2]) ELSE 0)
             + (IF m[1] + m[3] < ahi /\ m[2] + m[3] < bhi
                THEN MatchedSize(a, b, m[1] + m[3], ahi, m[2] + m[3], bhi) ELSE 0)

\* SequenceMatcher(None, a, b).ratio() >= 0.75, with ratio = 2.0 * M / T and 1.0 when T = 0
RatioAtLeastThreshold(a, b) ==
    LET T == Len(a) + Len(b)
        M == MatchedSize(a, b, 0, Len(a), 0, Len(b))
    IN  IF T = 0 THEN TRUE ELSE 8 * M >= 3 * T

-----------------------------------------------------------------------------
(* Feed entries.  keys is the set of keys the entry has; feedparser maps    *)
(* 'description' to 'summary'.  content_img and summary_img are the src of  *)
(* the first <img> of the entry's content and description HTML (empty when  *)
(* there is none).                                                          *)

Entry(title, link, keys, published, updated, summary, content_img, summary_img) ==
    [title |-> title, link |-> link, keys |-> keys, published |-> published,
     updated |-> updated, summary |-> summary, content_img |-> content_img,
     summary_img |-> summary_img]

get_latest_entry_date(e) ==
    IF "published" \in e.keys THEN e.published
    ELSE IF "updated" \in e.keys THEN e.updated
    ELSE <<>>

\* hashlib.sha256(...).hexdigest(), taken as injective on its input
Sha256(s) == <<"sha256:">> \o s

\* rss_latest_sha256 hashing the date and the title only
rss_latest_sha256_without_link(e) == Sha256(get_latest_entry_date(e) \o e.title)

rss_latest_sha256(e) == Sha256(get_latest_entry_date(e) \o e.title \o e.link)

\* latest_rss_entry_to_db with the title and the link in each other's column
latest_rss_entry_to_db_swapped(e) ==
    <<rss_latest_sha256(e), get_latest_entry_date(e), e.link, e.title>>

latest_rss_entry_to_db(e) ==
    <<rss_latest_sha256(e), get_latest_entry_date(e), e.title, e.link>>

-----------------------------------------------------------------------------
(* The history store (feedr.dbmanager.DatabaseManager): a four-column table *)
(* (fingerprint, date, title, url).                                         *)

check_for_existing_update(h, fp) == \E i \in 1..Len(h) : h[i][1] = fp

\* the most recent row, <<>> for an empty table
get_last_table_entry(h) == IF h = <<>> THEN <<>> ELSE h[Len(h)]

del_last_table_entry(h) == SubSeq(h, 1, Len(h) - 1)

create_latest_rss_entry(h, row) == Append(h, row)

get_feed_subscribed_users(u) == u

\* last_table_entry[3]: Python indexes from 0
PrevTitleColumn == 4

is_duplicate_update(e, h) ==
    LET cur_title == e.title
        last_table_entry == get_last_table_entry(h)
    IN  IF last_table_entry = <<>> THEN FALSE
        ELSE LET prev_title == last_table_entry[PrevTitleColumn]
             IN  \/ IsSubstring(prev_title, cur_title)
                 \/ RatioAtLeastThreshold(cur_title, prev_title)

-----------------------------------------------------------------------------
(* TweetUpdate.tweet_latest_update *)

MsgLimit == 140

TWEET_URL_LENGTH == 24

TWEET_IMG_LENGTH == 25

get_entry_img_url(e) ==
    IF "content" \in e.keys THEN e.content_img
    ELSE IF "summary" \in e.keys THEN e.summary_img
    ELSE <<>>

msg_limit_length(e) ==
    MsgLimit - (IF e.link # <<>> THEN TWEET_URL_LENGTH ELSE 0)
             - (IF get_entry_img_url(e) # <<>> THEN TWEET_IMG_LENGTH ELSE 0)

\* the values of the msg OrderedDict, in its key order
MsgValues(m) == <<m.title, m.summary, m.url, m.img_url>>

\* '\n'.join(filter(bool, msg.values()))
MsgText(m) == JoinNL(FilterBool(MsgValues(m)))

msg_length(m) == Len(MsgText(m))

\* '\n'.join(msg): iterating a dict yields its keys
MsgKeysText ==
    JoinNL(<< <<"t", "i", "t", "l", "e">>,
              <<"s", "u", "m", "m", "a", "r", "y">>,
              <<"u", "r", "l">>,
              <<"i", "m", "g", "_", "u", "r", "l">> >>)

\* ComposeTitle cutting at the limit, leaving no room for the ellipsis
ComposeTitleCutAtLimit(e) ==
    LET limit == msg_limit_length(e)
    IN  IF Len(e.title) - limit > 0
        THEN Slice(e.title, limit) \o Ellipsis
        ELSE e.title

\* the title after lines 83-86
ComposeTitle(e) ==
    LET limit == msg_limit_length(e)
    IN  IF Len(e.title) - limit > 0
        THEN Slice(e.title, limit - 3) \o Ellipsis
        ELSE e.title

\* the summary after lines 88-98, with the title of line 83 in msg
ComposeSummary(e) ==
    LET limit == msg_limit_length(e)
        m1 == [title |-> e.title, summary |-> e.summary, url |-> <<>>, img_url |-> <<>>]
    IN  IF Len(e.title) - limit > 0 THEN <<>>
        ELSE IF "summary" \notin e.keys THEN <<>>
        ELSE IF msg_length(m1) - limit > 0
             THEN LET summary_length == limit - msg_length(m1)
                  IN  Slice(e.summary, summary_length - 3) \o Ellipsis
             ELSE e.summary

\* msg after line 102
ComposeMsg(e) ==
    [title |-> ComposeTitle(e), summary |-> ComposeSummary(e),
     url |-> e.link, img_url |-> <<>>]

\* what one call of the platform does: accepted, rejected with
\* api.TwitterHTTPError, or ended by any other exception
Outcomes == {"ok", "rejected", "error"}

Attempt(call, text, outcome) == [call |-> call, text |-> text, outcome |-> outcome]

\* PlainAttempts retrying whatever the first call answered
PlainAttemptsAlwaysRetry(m, o) ==
    <<Attempt("update", MsgText(m), o[2]),
      Attempt("update", MsgText([m EXCEPT !.summary = <<>>]), o[3])>>

\* lines 118-128: statuses.update, and once more without the summary
PlainAttempts(m, o) ==
    LET first == Attempt("update", MsgText(m), o[2])
        popped == [m EXCEPT !.summary = <<>>]
        second == Attempt("update", MsgText(popped), o[3])
    IN  IF o[2] = "rejected" THEN <<first, second>> ELSE <<first>>

\* lines 104-116: statuses.update_with_media when an image URL was found
\* (retrieved tells whether urlretrieve got the image)
MediaAttempts(e, m, retrieved, o) ==
    IF get_entry_img_url(e) # <<>> /\ retrieved
    THEN << Attempt("update_with_media", MsgKeysText, o[1]) >>
    ELSE <<>>

\* tweet_latest_update without line 116: the image URL never enters the text
tweet_latest_update_without_img_text(e, retrieved, o) ==
    LET img_url == get_entry_img_url(e)
        m == ComposeMsg(e)
        media == MediaAttempts(e, m, retrieved, o)
    IN  IF img_url # <<>> /\ ~retrieved THEN <<>>
        ELSE IF media # <<>> /\ media[1].outcome = "ok" THEN media
        ELSE IF media # <<>> /\ media[1].outcome = "error" THEN media
        ELSE media \o PlainAttempts(m, o)

\* the calls tweet_latest_update(feed_entry) makes, in order, with their outcomes
tweet_latest_update(e, retrieved, o) ==
    LET img_url == get_entry_img_url(e)
        m == ComposeMsg(e)
        media == MediaAttempts(e, m, retrieved, o)
        fallback == [m EXCEPT !.img_url = img_url]
    IN  IF img_url # <<>> /\ ~retrieved THEN <<>>
        ELSE IF media # <<>> /\ media[1].outcome = "ok" THEN media
        ELSE IF media # <<>> /\ media[1].outcome = "error" THEN media
        ELSE IF media # <<>> THEN media \o PlainAttempts(fallback, o)
        ELSE PlainAttempts(m, o)

\* tweet_latest_update returns normally iff its last call was accepted
Returned(attempts) ==
    attempts # <<>> /\ attempts[Len(attempts)].outcome = "ok"

-----------------------------------------------------------------------------
(* The feeds the cycles run over *)

EA == Entry(<<"a", "b">>, <<"c", "d", "c", "d">>, {"published"},
            <<"1">>, <<>>, <<>>, <<>>, <<>>)

EB == Entry(<<"c", "d", "c", "e">>, <<"b">>, {"published", "updated", "summary"},
            <<"2">>, <<"9">>, <<"s">>, <<>>, <<"i">>)

EC == Entry(<<"x", "b">>, <<"q">>, {"updated", "summary", "content"},
            <<>>, <<"3">>, <<"s", "u">>, <<>>, <<"j">>)

ED == Entry(<<"z", "z">>, <<>>, {}, <<>>, <<>>, <<>>, <<>>, <<>>)

FeedEntries == {EA, EB, EC, ED}

SeqsUpTo(S, n) == UNION {[1..k -> S] : k \in 0..n}

Feeds == SeqsUpTo(FeedEntries, MaxFeed)

UserLists == {<<>>, <<"u1", "u2">>}

-----------------------------------------------------------------------------
(* MonitorFeedUpdate.monitor *)

Ev(ev, i, fp, info) == [ev |-> ev, i |-> i, fp |-> fp, info |-> info]

Post(fp, text) == [fp |-> fp, text |-> text]

\* the store and the platform as an entry's processing finds them
Found == [history |-> history, timeline |-> timeline, dms |-> dms]

\* TweetUpdate has no method reset_msg: line 90 raises AttributeError
reset_msg_raises == TRUE

\* line 78 subscripts the bound method get_last_table_entry: TypeError
get_last_table_entry_subscript_raises == TRUE

\* lines 80-86: the format string mixes {0}, {1} with {}: ValueError
duplicate_log_format_raises == TRUE

\* send_dm_to_feed_subscribed_users: the messages sent when send_dm raises
\* at the (sent + 1)-th account, all of them when sent = Len(subscribers)
send_dm_to_feed_subscribed_users(e, subscribers, sent) ==
    LET msg == e.title \o NL \o e.link
    IN  [k \in 1..sent |-> [user |-> subscribers[k], text |-> msg]]

Init ==
    /\ pc = "idle"
    /\ entries = <<>>
    /\ idx = 0
    /\ feed_subscribed_users = <<>>
    /\ users \in UserLists
    /\ history = <<>>
    /\ timeline = <<>>
    /\ dms = <<>>
    /\ log = <<>>
    /\ publishCalls = <<>>
    /\ ncycles = 0

\* lines 61-63: a new run of monitor() over the feed parsed at construction
StartCycle ==
    /\ pc \in {"idle", "aborted"}
    /\ ncycles < MaxCycles
    /\ \E f \in Feeds :
        /\ entries' = f
        /\ idx' = Len(f)
        /\ pc' = IF Len(f) = 0 THEN "idle" ELSE "check"
    /\ feed_subscribed_users' = get_feed_subscribed_users(users)
    /\ log' = <<>>
    /\ ncycles' = ncycles + 1
    /\ UNCHANGED <<users, history, timeline, dms, publishCalls>>

\* Advance leaving the loop one entry early: the newest entry is never reached
AdvanceDroppingNewest ==
    /\ idx' = idx - 1
    /\ pc' = IF idx <= 2 THEN "idle" ELSE "check"

\* the loop's next iteration, or the end of monitor()
Advance ==
    /\ idx' = idx - 1
    /\ pc' = IF idx = 1 THEN "idle" ELSE "check"

\* CheckEntry with the result of the existence check ignored
CheckEntryIgnoringCheck ==
    /\ pc = "check"
    /\ LET e == entries[idx]
           unchecked_hash == rss_latest_sha256(e)
       IN  IF is_duplicate_update(e, history)
           THEN /\ log' = Append(log, Ev("duplicate", idx, unchecked_hash, Found))
                /\ pc' = "retract"
                /\ idx' = idx
           ELSE /\ log' = Append(log, Ev("new", idx, unchecked_hash, Found))
                /\ pc' = "publish"
                /\ idx' = idx
    /\ UNCHANGED <<entries, feed_subscribed_users, users, history, timeline,
                   dms, publishCalls, ncycles>>

\* lines 65-76: fingerprint, existence check, duplicate check
CheckEntry ==
    /\ pc = "check"
    /\ LET e == entries[idx]
           unchecked_hash == rss_latest_sha256(e)
           check == check_for_existing_update(history, unchecked_hash)
       IN  IF check
           THEN /\ log' = Append(log, Ev("seen", idx, unchecked_hash, Found))
                /\ Advance
           ELSE IF is_duplicate_update(e, history)
           THEN /\ log' = Append(log, Ev("duplicate", idx, unchecked_hash, Found))
                /\ pc' = "retract"
                /\ idx' = idx
           ELSE /\ log' = Append(log, Ev("new", idx, unchecked_hash, Found))
                /\ pc' = "publish"
                /\ idx' = idx
    /\ UNCHANGED <<entries, feed_subscribed_users, users, history, timeline,
                   dms, publishCalls, ncycles>>

\* Retract with a failed deletion of the post caught and passed over: the
\* entry goes on to the try block
RetractSwallowingFailure ==
    /\ pc = "retract"
    /\ LET e == entries[idx]
           fp == rss_latest_sha256(e)
       IN  \E destroyed \in BOOLEAN :
           IF timeline = <<>> \/ ~destroyed
           THEN /\ log' = log \o <<Ev("delete_post_failed", idx, fp, <<>>)>>
                /\ pc' = "publish"
                /\ UNCHANGED <<timeline, history>>
           ELSE /\ timeline' = SubSeq(timeline, 1, Len(timeline) - 1)
                /\ log' = log \o <<Ev("delete_post", idx, fp, timeline[Len(timeline)].fp),
                                   Ev("abort", idx, fp, <<>>)>>
                /\ pc' = "aborted"
                /\ UNCHANGED history
    /\ UNCHANGED <<entries, idx, feed_subscribed_users, users, dms,
                   publishCalls, ncycles>>

\* lines 77-86 with TweetUpdate.delete_last_tweet: the most recent post of the
\* timeline is destroyed, then the most recent row is deleted
Retract ==
    /\ pc = "retract"
    /\ LET e == entries[idx]
           fp == rss_latest_sha256(e)
           abort == Ev("abort", idx, fp, <<>>)
       IN  IF timeline = <<>>
           THEN \* home_timeline(count=1)[0]: IndexError
                /\ log' = log \o <<Ev("delete_post_failed", idx, fp, <<>>), abort>>
                /\ pc' = "aborted"
                /\ UNCHANGED <<timeline, history>>
           ELSE \E destroyed \in BOOLEAN :
                LET last_tweet == timeline[Len(timeline)]
                    row == get_last_table_entry(history)
                    del_post == Ev("delete_post", idx, fp, last_tweet.fp)
                    del_row == Ev("delete_row", idx, fp, row[1])
                IN  IF ~destroyed
                    THEN /\ log' = log \o <<Ev("delete_post_failed", idx, fp, <<>>), abort>>
                         /\ pc' = "aborted"
                         /\ UNCHANGED <<timeline, history>>
                    ELSE /\ timeline' = SubSeq(timeline, 1, Len(timeline) - 1)
                         /\ IF get_last_table_entry_subscript_raises
                            THEN /\ log' = log \o <<del_post, abort>>
                                 /\ pc' = "aborted"
                                 /\ UNCHANGED history
                            ELSE /\ history' = del_last_table_entry(history)
                                 /\ IF duplicate_log_format_raises
                                    THEN /\ log' = log \o <<del_post, del_row, abort>>
                                         /\ pc' = "aborted"
                                    ELSE /\ log' = log \o <<del_post, del_row>>
                                         /\ pc' = "publish"
    /\ UNCHANGED <<entries, idx, feed_subscribed_users, users, dms,
                   publishCalls, ncycles>>

\* every run tweet_latest_update(e) can take, over what the image host and
\* the platform answer
PublishRuns(e) ==
    {tweet_latest_update(e, retrieved, o) :
        retrieved \in BOOLEAN, o \in [1..3 -> Outcomes]}

\* lines 88-102: the try block and its handlers
Publish ==
    /\ pc = "publish"
    /\ LET e == entries[idx]
           fp == rss_latest_sha256(e)
       IN  \E attempts \in PublishRuns(e) :
           LET posted == Returned(attempts)
               fanout == posted /\ ~reset_msg_raises
           IN  \E sent \in 0..(IF fanout THEN Len(feed_subscribed_users) ELSE 0) :
               LET sent_dms == IF fanout
                               THEN send_dm_to_feed_subscribed_users(
                                        e, feed_subscribed_users, sent)
                               ELSE <<>>
               IN  /\ timeline' = IF posted
                                  THEN Append(timeline,
                                              Post(fp, attempts[Len(attempts)].text))
                                  ELSE timeline
                   /\ dms' = dms \o sent_dms
                   /\ publishCalls' = Append(publishCalls, fp)
                   /\ log' = log \o <<Ev("publish", idx, fp, attempts)>>
                                 \o (IF fanout THEN <<Ev("dm", idx, fp, sent_dms)>>
                                     ELSE <<>>)
    /\ pc' = "persist"
    /\ UNCHANGED <<entries, idx, feed_subscribed_users, users, history, ncycles>>

\* Persist as an else block: the row is inserted only after a successful try
PersistOnlyOnSuccess ==
    /\ pc = "persist"
    /\ LET e == entries[idx]
           ok == \E k \in DOMAIN log :
                    /\ log[k].ev = "publish" /\ log[k].i = idx
                    /\ Returned(log[k].info) /\ ~reset_msg_raises
       IN  IF ok
           THEN /\ history' = create_latest_rss_entry(history, latest_rss_entry_to_db(e))
                /\ log' = Append(log, Ev("insert", idx, rss_latest_sha256(e), <<>>))
           ELSE UNCHANGED <<history, log>>
    /\ Advance
    /\ UNCHANGED <<entries, feed_subscribed_users, users, timeline, dms,
                   publishCalls, ncycles>>

\* lines 103-107: the finally block
Persist ==
    /\ pc = "persist"
    /\ LET e == entries[idx]
       IN  /\ history' = create_latest_rss_entry(history, latest_rss_entry_to_db(e))
           /\ log' = Append(log, Ev("insert", idx, rss_latest_sha256(e), <<>>))
    /\ Advance
    /\ UNCHANGED <<entries, feed_subscribed_users, users, timeline, dms,
                   publishCalls, ncycles>>

Next == StartCycle \/ CheckEntry \/ Retract \/ Publish \/ Persist

Spec == Init /\ [][Next]_vars

-----------------------------------------------------------------------------
(* One cycle over a one-entry feed and an empty history, at the try block,  *)
(* for entries whose title and summary have every length up to the bounds.  *)

Alphabet == <<"a", "b", "c", "d", "e", "f", "g", "h", "i", "j", "k", "l", "m">>

\* a text of n characters, no two adjacent ones alike
Text(n, shift) == [i \in 1..n |-> Alphabet[((i + shift) % Len(Alphabet)) + 1]]

ComposeEntries ==
    {Entry(Text(n, 0), link, {"content"} \cup (IF s >= 0 THEN {"summary"} ELSE {}),
           <<>>, <<>>, Text(Max(s, 0), 5), img, <<>>) :
        n \in 0..MaxTitleLen, s \in (-1)..MaxSummaryLen,
        link \in {<<>>, <<"L">>}, img \in {<<>>, <<"I">>}}

InitCompose ==
    /\ pc = "publish"
    /\ \E e \in ComposeEntries :
        /\ entries = <<e>>
        /\ log = <<Ev("new", 1, rss_latest_sha256(e),
                       [history |-> <<>>, timeline |-> <<>>, dms |-> <<>>])>>
    /\ idx = 1
    /\ users = <<"u1">>
    /\ feed_subscribed_users = users
    /\ history = <<>>
    /\ timeline = <<>>
    /\ dms = <<>>
    /\ publishCalls = <<>>
    /\ ncycles = 1

NextCompose == Publish \/ Persist

SpecCompose == InitCompose /\ [][NextCompose]_vars

-----------------------------------------------------------------------------
(* One cycle over a two-entry feed and an empty history, for entries that   *)
(* differ in their dates, titles and links.                                 *)

\* entries with or without a 'published' and an 'updated' key
FpEntries ==
    {Entry(title, link,
           (IF published # <<>> THEN {"published"} ELSE {})
               \cup (IF updated # <<>> THEN {"updated"} ELSE {}),
           published, updated, <<>>, <<>>, <<>>) :
        title \in {<<"a">>, <<"a", "b">>}, link \in {<<"b">>, <<"c">>},
        published \in {<<>>, <<"1">>, <<"2">>},
        updated \in {<<>>, <<"1">>, <<"3">>}}

InitFingerprint ==
    /\ pc = "check"
    /\ entries \in [1..2 -> FpEntries]
    /\ idx = 2
    /\ users = <<>>
    /\ feed_subscribed_users = users
    /\ history = <<>>
    /\ timeline = <<>>
    /\ dms = <<>>
    /\ log = <<>>
    /\ publishCalls = <<>>
    /\ ncycles = 1

NextFingerprint == CheckEntry \/ Retract \/ Publish \/ Persist

SpecFingerprint == InitFingerprint /\ [][NextFingerprint]_vars

-----------------------------------------------------------------------------
(* Reading the log of the current cycle *)

Indices == 1..Len(entries)

\* the events of entry i named ev
Events(ev, i) == {k \in DOMAIN log : log[k].ev = ev /\ log[k].i = i}

Has(ev, i) == Events(ev, i) # {}

\* the event that opened the processing of entry i
Opening(i) ==
    {k \in DOMAIN log : log[k].i = i /\ log[k].ev \in {"seen", "duplicate", "new"}}

Started(i) == Opening(i) # {}

\* monitor() left entry i by an exception
AbortedAt(i) == pc = "aborted" /\ idx = i

\* the processing of entry i is over
Ended(i) == Started(i) /\ (i > idx \/ AbortedAt(i))

\* entry i is the one whose processing ended last
JustEnded(i) ==
    /\ Started(i)
    /\ \/ pc \in {"check", "idle"} /\ i = idx + 1
       \/ AbortedAt(i)

FpOf(i) == rss_latest_sha256(entries[i])

\* tweet_latest_update was called for entry i and raised
PublishFailed(i) == \E k \in Events("publish", i) : ~Returned(log[k].info)

PublishSucceeded(i) == \E k \in Events("publish", i) : Returned(log[k].info)

\* the fan-out for entry i stopped before the last subscribed account
FanoutFailed(i) ==
    \E k \in Events("dm", i) : Len(log[k].info) < Len(feed_subscribed_users)

-----------------------------------------------------------------------------
(* C1: when an entry whose fingerprint is not in the history is classified  *)
(* as a duplicate of the most recent row, then by the end of its processing *)
(* the remote post and the most recent row have been deleted, the publisher *)
(* has been called for the entry and a row for it has been inserted, so the *)
(* number of rows is what it was.  (Stated for the runs in which the       *)
(* platform accepts the deletion of the post.)                              *)
C1_DuplicateReplaced ==
    \A i \in Indices :
        (Ended(i) /\ Has("duplicate", i) /\ ~Has("delete_post_failed", i)) =>
            \A k \in Events("duplicate", i) :
                /\ Has("delete_post", i)
                /\ Has("delete_row", i)
                /\ Has("publish", i)
                /\ Has("insert", i)
                /\ check_for_existing_update(history, FpOf(i))
                /\ JustEnded(i) => Len(history) = Len(log[k].info.history)

-----------------------------------------------------------------------------
(* C2: for an entry whose fingerprint is not in the history, a failure of   *)
(* the publish call or of the direct-message fan-out does not abort the     *)
(* cycle: the entry's row is inserted all the same and the loop goes on to  *)
(* the next entry.                                                          *)
C2_FailureDoesNotAbort ==
    \A i \in Indices :
        (PublishFailed(i) \/ FanoutFailed(i)) =>
            /\ ~AbortedAt(i)
            /\ ~Ended(i) => (pc = "persist" /\ idx = i)
            /\ Ended(i) =>
                /\ Has("insert", i)
                /\ check_for_existing_update(history, FpOf(i))
                /\ i > 1 => (Started(i - 1) \/ (pc = "check" /\ idx = i - 1))
                /\ i = 1 => pc = "idle"

\* a publish call failed, its row is in the store and the next entry was processed
C2_Witness ==
    \E i \in Indices :
        /\ i > 1
        /\ PublishFailed(i)
        /\ Has("insert", i)
        /\ Started(i - 1)

-----------------------------------------------------------------------------
(* C3: an entry whose fingerprint is in the history when it is processed    *)
(* changes nothing: the history is as it was, no publish call, no remote    *)
(* post deleted, no direct message sent.                                    *)
C3_SeenIsNoOp ==
    \A i \in Indices :
        \A k \in Opening(i) :
            (JustEnded(i) /\ check_for_existing_update(log[k].info.history, log[k].fp)) =>
                /\ history = log[k].info.history
                /\ timeline = log[k].info.timeline
                /\ dms = log[k].info.dms
                /\ \A j \in DOMAIN log : log[j].i = i => j = k
                /\ ~AbortedAt(i)

\* an entry was found in the history and skipped, with rows and posts in place
C3_Witness ==
    \E i \in Indices :
        /\ JustEnded(i)
        /\ Has("seen", i)
        /\ history # <<>>
        /\ timeline # <<>>

-----------------------------------------------------------------------------
(* C4: once an entry has been processed as not already seen, whether its    *)
(* publish succeeded or failed, its fingerprint is in the history and the   *)
(* publisher is never called again for that fingerprint, in this cycle or a *)
(* later one.  (Stated for the runs in which the platform accepts the      *)
(* deletion of a post.)                                                     *)
C4_RecordedAndNeverRetried ==
    /\ \A i \in Indices :
        (/\ Ended(i)
         /\ Has("new", i) \/ Has("duplicate", i)
         /\ ~Has("delete_post_failed", i)) =>
            check_for_existing_update(history, FpOf(i))
    /\ \A k, j \in DOMAIN publishCalls :
        publishCalls[k] = publishCalls[j] => k = j

-----------------------------------------------------------------------------
(* C5: each row of the history has at most one live post, the post a        *)
(* retraction deletes is the one that was published for the row it         *)
(* retracts (the most recent row), and a retraction never deletes a post of *)
(* a row that it leaves in the history (an older row); also after a publish *)
(* that failed and left its row in the history.                             *)
C5_RowsAndPostsCorrespond ==
    /\ \A r \in DOMAIN history :
        Cardinality({t \in DOMAIN timeline : timeline[t].fp = history[r][1]}) <= 1
    /\ \A i \in Indices :
        \A d \in Events("delete_post", i) :
            \A k \in Opening(i) :
                LET found == log[k].info.history
                IN  /\ log[d].info = get_last_table_entry(found)[1]
                    /\ \A r \in 1..(Len(found) - 1) : found[r][1] # log[d].info

-----------------------------------------------------------------------------
(* C6: for every entry that is not already seen and whose publish call      *)
(* succeeds, a direct message title + newline + link is sent to every       *)
(* account of the list read at the start of the cycle.                      *)
C6_FanoutAfterPublish ==
    \A i \in Indices :
        (Ended(i) /\ PublishSucceeded(i)) =>
            \A u \in DOMAIN feed_subscribed_users :
                \E d \in DOMAIN dms :
                    /\ dms[d].user = feed_subscribed_users[u]
                    /\ dms[d].text = entries[i].title \o NL \o entries[i].link

-----------------------------------------------------------------------------
(* C7: for every title length, every summary length (also no summary), a    *)
(* link present or not and an image found or not, the composed title and    *)
(* summary, joined by a newline when both are non-empty, are at most 140    *)
(* characters minus 24 for a non-empty link minus 25 for an image.          *)
C7_ComposedFitsBudget ==
    \A i \in Indices :
        Has("publish", i) =>
            LET e == entries[i]
                budget == 140 - (IF e.link # <<>> THEN 24 ELSE 0)
                              - (IF get_entry_img_url(e) # <<>> THEN 25 ELSE 0)
                m == ComposeMsg(e)
            IN  Len(JoinNL(FilterBool(<<m.title, m.summary>>))) <= budget

-----------------------------------------------------------------------------
(* C8: in one publish call the platform is tried in the order media post    *)
(* (only when an image URL was found), plain post, plain post without the   *)
(* summary; a later attempt is made only after the platform rejected the    *)
(* one before, the first accepted attempt ends the call, there are at most  *)
(* three attempts, and the rejection of the last kind ends the call.        *)
C8_AttemptOrder ==
    \A k \in DOMAIN log :
        log[k].ev = "publish" =>
            LET a == log[k].info
                e == entries[log[k].i]
                img == get_entry_img_url(e)
                plain == {n \in DOMAIN a : a[n].call = "update"}
                summary == ComposeSummary(e)
            IN  /\ Len(a) <= 3
                /\ \A n \in DOMAIN a :
                    a[n].call = "update_with_media" => (n = 1 /\ img # <<>>)
                /\ (img # <<>> /\ a # <<>>) => a[1].call = "update_with_media"
                /\ Cardinality(plain) <= 2
                /\ \A n \in 2..Len(a) : a[n - 1].outcome = "rejected"
                /\ (a # <<>> /\ a[Len(a)].outcome = "rejected") => Cardinality(plain) = 2
                /\ \A n, n2 \in plain :
                    (n < n2 /\ summary # <<>>) =>
                        /\ IsSubstring(NL \o summary, a[n].text)
                        /\ ~IsSubstring(NL \o summary, a[n2].text)
                /\ Cardinality({n \in DOMAIN a : a[n].outcome = "ok"}) <= 1
                /\ \A c \in Events("new", log[k].i) :
                    (pc = "persist" /\ idx = log[k].i) =>
                        Len(timeline) = Len(log[c].info.timeline)
                                        + Cardinality({n \in DOMAIN a : a[n].outcome = "ok"})

\* a publish call went through all three attempts and the last was accepted
C8_Witness ==
    \E k \in DOMAIN log :
        /\ log[k].ev = "publish"
        /\ Len(log[k].info) = 3
        /\ log[k].info[1].call = "update_with_media"
        /\ log[k].info[3].outcome = "ok"

-----------------------------------------------------------------------------
(* C9: when an image URL was found and the media post and the plain post    *)
(* after it are both rejected, the second attempt's text is title, summary  *)
(* and url and the third attempt's text is title and url only, without the  *)
(* summary and without the image URL.                                       *)
C9_FallbackTextsWithoutImage ==
    \A k \in DOMAIN log :
        (log[k].ev = "publish" /\ Len(log[k].info) = 3) =>
            LET a == log[k].info
                e == entries[log[k].i]
            IN  /\ a[2].text = JoinNL(FilterBool(
                        <<ComposeTitle(e), ComposeSummary(e), e.link>>))
                /\ a[3].text = JoinNL(FilterBool(<<ComposeTitle(e), e.link>>))

(* C9, amended: in that case the second attempt's text is title, summary,   *)
(* url and the image URL, and the third attempt's text is title, url and    *)
(* the image URL (no summary), the non-empty ones joined by newlines.       *)
C9_FallbackTextsWithImage ==
    \A k \in DOMAIN log :
        (log[k].ev = "publish" /\ Len(log[k].info) = 3) =>
            LET a == log[k].info
                e == entries[log[k].i]
                img == get_entry_img_url(e)
            IN  /\ img # <<>>
                /\ a[1].call = "update_with_media" /\ a[1].outcome = "rejected"
                /\ a[2].call = "update" /\ a[2].outcome = "rejected"
                /\ a[2].text = JoinNL(FilterBool(
                        <<ComposeTitle(e), ComposeSummary(e), e.link, img>>))
                /\ a[3].call = "update"
                /\ a[3].text = JoinNL(FilterBool(<<ComposeTitle(e), e.link, img>>))

\* both the media post and the plain post of an entry with a summary were rejected
C9_Witness ==
    \E k \in DOMAIN log :
        /\ log[k].ev = "publish"
        /\ Len(log[k].info) = 3
        /\ log[k].info[1].outcome = "rejected"
        /\ log[k].info[2].outcome = "rejected"
        /\ ComposeSummary(entries[log[k].i]) # <<>>

-----------------------------------------------------------------------------
(* C10: from an empty history, a cycle over a feed of exactly one entry     *)
(* calls the publisher exactly once, inserts exactly one row (that entry's  *)
(* fingerprint, date, title and link) and deletes no row and no remote      *)
(* post.                                                                    *)
C10_OneNewEntry ==
    (ncycles = 1 /\ Len(entries) = 1) =>
        LET e == entries[1]
            date == IF "published" \in e.keys THEN e.published
                    ELSE IF "updated" \in e.keys THEN e.updated ELSE <<>>
        IN  /\ pc \notin {"aborted", "retract"}
            /\ \A k \in DOMAIN log :
                log[k].ev \notin {"delete_post", "delete_post_failed", "delete_row"}
            /\ Cardinality(Events("publish", 1)) <= 1
            /\ pc = "idle" =>
                /\ Cardinality(Events("publish", 1)) = 1
                /\ publishCalls = <<FpOf(1)>>
                /\ Cardinality(Events("insert", 1)) = 1
                /\ history = << <<Sha256(date \o e.title \o e.link), date, e.title, e.link>> >>
                /\ Len(timeline) = IF PublishSucceeded(1) THEN 1 ELSE 0

\* the first cycle, over one entry, has completed and left one row
C10_Witness ==
    /\ ncycles = 1
    /\ Len(entries) = 1
    /\ pc = "idle"
    /\ Len(history) = 1
    /\ Len(publishCalls) = 1

-----------------------------------------------------------------------------
(* C11: is_duplicate_update is false whenever the history is empty, and     *)
(* otherwise true exactly when the title of the most recent row (the third  *)
(* column of a (fingerprint, date, title, url) row) is a substring of the   *)
(* entry's title or the similarity ratio of the two titles is at least      *)
(* 0.75.                                                                    *)
C11_DuplicateByStoredTitle ==
    \A k \in DOMAIN log :
        log[k].ev \in {"duplicate", "new"} =>
            LET found == log[k].info.history
                cur_title == entries[log[k].i].title
                stored_title == found[Len(found)][3]
            IN  (log[k].ev = "duplicate") <=>
                    /\ found # <<>>
                    /\ \/ IsSubstring(stored_title, cur_title)
                       \/ RatioAtLeastThreshold(cur_title, stored_title)

-----------------------------------------------------------------------------
(* C12: within a cycle the entries are processed oldest first (from the     *)
(* last position of feed.entries to the first), every store and platform    *)
(* action of an entry is over before any action of the next entry starts,   *)
(* and what was committed for an earlier entry (its row, its post) is not   *)
(* undone when the publish of a later entry fails: the row stays, and so    *)
(* does the post unless the retraction of a later entry has deleted one.    *)
C12_OldestFirstNoRollback ==
    /\ \A k, j \in DOMAIN log : k < j => log[k].i >= log[j].i
    /\ \A i \in Indices :
        /\ Cardinality(Opening(i)) <= 1
        /\ Started(i) => \A j \in (i + 1)..Len(entries) : Started(j) /\ Ended(j)
        /\ \A k \in DOMAIN log : log[k].i = i => \E c \in Opening(i) : c <= k
    /\ (pc = "idle" /\ ncycles > 0) => \A i \in Indices : Started(i)
    /\ \A i \in Indices : \A j \in 1..(i - 1) :
        (Has("insert", i) /\ PublishFailed(j)) =>
            /\ check_for_existing_update(history, FpOf(i))
            /\ (PublishSucceeded(i)
                    /\ \A l \in 1..(i - 1) : ~Has("delete_post", l)) =>
                \E t \in DOMAIN timeline : timeline[t].fp = FpOf(i)

\* an entry was published and recorded, and the publish of the next entry failed
C12_Witness ==
    \E i \in Indices : \E j \in 1..(i - 1) :
        /\ Has("insert", i)
        /\ PublishSucceeded(i)
        /\ PublishFailed(j)
        /\ Has("insert", j)

-----------------------------------------------------------------------------
(* C13: when the title alone is longer than the budget B (140 minus 24 for  *)
(* a non-empty link minus 25 for an image), the composed title is the first *)
(* B-3 characters of the title followed by "...", B characters in all, and  *)
(* the summary is left out of the message even if the entry has one.        *)
C13_LongTitleTruncated ==
    \A k \in DOMAIN log :
        log[k].ev = "publish" =>
            LET e == entries[log[k].i]
                a == log[k].info
                img == get_entry_img_url(e)
                B == 140 - (IF e.link # <<>> THEN 24 ELSE 0)
                         - (IF img # <<>> THEN 25 ELSE 0)
                T == SubSeq(e.title, 1, B - 3) \o <<".", ".", ".">>
                m == ComposeMsg(e)
            IN  Len(e.title) > B =>
                    /\ m.title = T
                    /\ Len(m.title) = B
                    /\ m.summary = <<>>
                    /\ \A n \in DOMAIN a :
                        a[n].call = "update" =>
                            a[n].text = JoinNL(FilterBool(<<T, e.link>> \o
                                (IF a[1].call = "update_with_media"
                                 THEN <<img>> ELSE <<>>)))

\* an entry with a summary and a title longer than the budget was posted
C13_Witness ==
    /\ pc = "persist"
    /\ \E k \in DOMAIN log :
        /\ log[k].ev = "publish"
        /\ Len(entries[log[k].i].title) > 140
        /\ entries[log[k].i].summary # <<>>
        /\ \E n \in DOMAIN log[k].info :
            /\ log[k].info[n].call = "update"
            /\ log[k].info[n].outcome = "ok"

-----------------------------------------------------------------------------
(* C14: when the title (1 to B characters) fits the budget B but title,     *)
(* newline and summary together do not, the composed summary is a prefix of *)
(* the entry's summary followed by "...", and title, newline and composed   *)
(* summary are exactly B characters.                                        *)
C14_SummaryTruncatedToBudget ==
    \A k \in DOMAIN log :
        log[k].ev = "publish" =>
            LET e == entries[log[k].i]
                B == 140 - (IF e.link # <<>> THEN 24 ELSE 0)
                         - (IF get_entry_img_url(e) # <<>> THEN 25 ELSE 0)
                m == ComposeMsg(e)
                kept == Len(m.summary) - 3
            IN  (/\ "summary" \in e.keys
                 /\ Len(e.title) \in 1..B
                 /\ Len(e.title) + 1 + Len(e.summary) > B) =>
                    /\ kept \in 0..Len(e.summary)
                    /\ m.summary = SubSeq(e.summary, 1, kept) \o <<".", ".", ".">>
                    /\ m.title = e.title
                    /\ Len(m.title) + 1 + Len(m.summary) = B

-----------------------------------------------------------------------------
(* C15: when an image URL was found, the text sent with the media post is   *)
(* the composed message: the non-empty ones of title, summary and url, in   *)
(* that order, joined by newlines, without the image URL.                   *)
C15_MediaPostText ==
    \A k \in DOMAIN log :
        log[k].ev = "publish" =>
            LET e == entries[log[k].i]
                a == log[k].info
                m == ComposeMsg(e)
            IN  \A n \in DOMAIN a :
                    a[n].call = "update_with_media" =>
                        a[n].text = JoinNL(FilterBool(<<m.title, m.summary, m.url>>))

-----------------------------------------------------------------------------
(* C16: two entries with the same (date, title, link) get the same          *)
(* fingerprint, and two entries that differ in exactly one of the three get *)
(* different fingerprints, where date is the entry's 'published' value if   *)
(* it has one, else its 'updated' value, else the empty string.             *)
C16_FingerprintOfDateTitleLink ==
    \A k, j \in DOMAIN log :
        (log[k].ev \in {"seen", "duplicate", "new"}
            /\ log[j].ev \in {"seen", "duplicate", "new"}) =>
            LET e1 == entries[log[k].i]
                e2 == entries[log[j].i]
                D(e) == IF "published" \in e.keys THEN e.published
                        ELSE IF "updated" \in e.keys THEN e.updated
                        ELSE <<>>
                differing == (IF D(e1) # D(e2) THEN 1 ELSE 0)
                              + (IF e1.title # e2.title THEN 1 ELSE 0)
                              + (IF e1.link # e2.link THEN 1 ELSE 0)
            IN  /\ differing = 0 => log[k].fp = log[j].fp
                /\ differing = 1 => log[k].fp # log[j].fp

\* two entries alike but for the date, which one of them takes from 'updated',
\* were both fingerprinted
C16_Witness ==
    /\ Len(entries) = 2
    /\ Started(1) /\ Started(2)
    /\ entries[1].title = entries[2].title
    /\ entries[1].link = entries[2].link
    /\ "published" \in entries[2].keys
    /\ entries[1].keys = {"updated"}
    /\ entries[1].updated # entries[2].published
    /\ FpOf(1) # FpOf(2)

-----------------------------------------------------------------------------
(* C17: over any sequence of cycles, feeds and publish outcomes, the        *)
(* history never holds two rows with the same fingerprint.                  *)
C17_FingerprintsUnique ==
    \A r1, r2 \in DOMAIN history :
        history[r1][1] = history[r2][1] => r1 = r2

\* an entry whose fingerprint was already recorded came up again and was
\* skipped, with several rows in the history
C17_Witness ==
    /\ Len(history) >= 2
    /\ \E i \in Indices :
        /\ Has("seen", i)
        /\ Ended(i)
        /\ \E r \in DOMAIN history : history[r][1] = FpOf(i)

-----------------------------------------------------------------------------
-----------------------------------------------------------------------------
(* C19: in a retraction the deletion of the remote post is attempted before *)
(* the deletion of the most recent row; when the deletion of the post fails *)
(* the row is not deleted and no row is inserted for the current entry: the *)
(* history is as the entry's processing found it.                           *)
C19_FailedPostDeletionLeavesHistory ==
    /\ \A k \in DOMAIN log :
        /\ log[k].ev = "delete_row" =>
            \E j \in 1..(k - 1) :
                log[j].ev = "delete_post" /\ log[j].i = log[k].i
        /\ log[k].ev \in {"delete_post", "delete_post_failed"} =>
            /\ k > 1
            /\ log[k - 1].ev = "duplicate"
            /\ log[k - 1].i = log[k].i
            /\ \A r \in DOMAIN history :
                r <= Len(log[k - 1].info.history) =>
                    history[r] = log[k - 1].info.history[r]
    /\ \A k \in DOMAIN log :
        log[k].ev = "delete_post_failed" =>
            /\ log[k - 1].ev = "duplicate"
            /\ history = log[k - 1].info.history
            /\ timeline = log[k - 1].info.timeline
            /\ pc = "aborted"
            /\ idx = log[k].i
            /\ ~Has("delete_post", log[k].i)
            /\ ~Has("delete_row", log[k].i)
            /\ ~Has("publish", log[k].i)
            /\ ~Has("insert", log[k].i)

\* the platform refused to delete the post of a duplicate's predecessor
C19_Witness ==
    \E i \in Indices :
        /\ Has("duplicate", i)
        /\ Has("delete_post_failed", i)
        /\ timeline # <<>>
        /\ history # <<>>

====
